---- MODULE Spec2Model ----
(***************************************************************************)
(* Model of the two development servers of the repository:                 *)
(*   variant "fixed" : src/serve.py       (binds the requested port)       *)
(*   variant "free"  : src/test/serve.py  (probes for a free port first)   *)
(* Both run main() top to bottom; pc is main's position.  The operating    *)
(* system (ports held by other processes, clients that connect, the        *)
(* interrupt signal, the outcome of the browser launch) is the             *)
(* environment.  Library calls made by the scripts (socketserver.TCPServer,*)
(* http.server.SimpleHTTPRequestHandler, webbrowser.open) are modelled by  *)
(* what CPython 3.11 does at the call site named in the comments.          *)
(* An interrupt (SIGINT, raised as KeyboardInterrupt in main's thread) is  *)
(* delivered while main() is inside one of its two blocking calls,         *)
(* webbrowser.open and httpd.serve_forever; the other statements of main() *)
(* do not block.                                                           *)
(***************************************************************************)
EXTENDS Integers, Sequences, FiniteSets, TLC

VARIABLES
    variant,        \* which script runs: "fixed" | "free"
    argv,           \* sys.argv[1:], a sequence of at most one string
    occupied,       \* ports held by other processes
    pc,             \* position of main()
    requested_port, \* test/serve.py:26 (serve.py:16 calls it port)
    port,           \* the port main() prints, opens and passes to the bind
    probe,          \* loop variable of find_free_port
    tried,          \* ports find_free_port has passed to a bind, in order
    probeSock,      \* port held by the probe's socket, or None
    httpd,          \* port the serving socket is bound to, or None
    binds,          \* ports main() has passed to the serving bind, in order
    cwd,            \* working directory after os.chdir
    stdout,         \* messages printed so far
    browser,        \* outcome of the webbrowser.open attempt
    backlog,        \* connections waiting in the listen queue (FIFO)
    connected,      \* number of connections clients have made
    accepted,       \* connections the server has accepted, in order
    active,         \* accepted connections whose handling has not finished
    req,            \* request read from each active connection
    resp,           \* response written to each active connection
    interrupts,     \* where each delivered interrupt arrived, in order
    exit_status,    \* process exit status, None while running
    fault           \* name of the unhandled exception, "" if none

vars == <<variant, argv, occupied, pc, requested_port, port, probe, tried,
          probeSock, httpd, binds, cwd, stdout, browser, backlog, connected,
          accepted, active, req, resp, interrupts, exit_status, fault>>

\* ------------------------------------------------------------------------
\* Bounds of the exploration
\* ------------------------------------------------------------------------
MaxConnections == 2      \* connections clients make in one run

\* ------------------------------------------------------------------------
\* Program constants
\* ------------------------------------------------------------------------
max_attempts == 10      \* test/serve.py:15
DefaultPort == 8000     \* serve.py:16, test/serve.py:15 and :26

None == -1              \* Python's None for port-valued variables

Variants == {"fixed", "free"}

\* Command lines explored: no argument, port 0, a port near the top of the
\* range, a number that is not a port, and text that is not a number.
Args == {<<>>, <<"0">>, <<"65530">>, <<"65536">>, <<"abc">>}

\* int(sys.argv[1]): the value, or ValueError (ok = FALSE)
PyInt(s) ==
    CASE s = "0"     -> [ok |-> TRUE, val |-> 0]
      [] s = "65530" -> [ok |-> TRUE, val |-> 65530]
      [] s = "65536" -> [ok |-> TRUE, val |-> 65536]
      [] OTHER       -> [ok |-> FALSE, val |-> None]

\* port = int(sys.argv[1]) if len(sys.argv) > 1 else 8000
ParsePort(a) ==
    IF Len(a) > 0 THEN PyInt(a[1]) ELSE [ok |-> TRUE, val |-> DefaultPort]

\* ------------------------------------------------------------------------
\* The socket layer under socketserver.TCPServer(("", port), ...)
\* ------------------------------------------------------------------------
\* bind() accepts port numbers 0..65535 and raises OverflowError otherwise
ValidPort(p) == p >= 0 /\ p <= 65535

\* ports the kernel hands out for a bind to port 0
EphemeralPorts == {32768, 32769}

\* ports this process holds itself
OwnPorts == {probeSock, httpd} \ {None}

\* a bind to p succeeds on these ports (allow_reuse_address is False)
IsFree(p) == p \notin occupied /\ p \notin OwnPorts

\* Ports a successful bind to p can end up on: p itself, or for p = 0 any
\* free ephemeral port.  Empty when the bind fails with OSError.
BindResults(p) ==
    IF p = 0 THEN {e \in EphemeralPorts : IsFree(e)}
    ELSE IF IsFree(p) THEN {p} ELSE {}

\* a loop that probes one port too many
ProbeRangeOneMore(start_port) == start_port .. (start_port + max_attempts)

\* range(start_port, start_port + max_attempts)
ProbeRange(start_port) == start_port .. (start_port + max_attempts - 1)

\* Ports whose occupancy the run can depend on
PortsOfInterest(v, p) ==
    IF p = 0 THEN EphemeralPorts
    ELSE IF v = "free" THEN {q \in ProbeRange(p) : ValidPort(q)}
    ELSE {q \in p .. (p + 1) : ValidPort(q)}

Msg(m, p) == [msg |-> m, port |-> p]
Printed(m) == \E i \in DOMAIN stdout : stdout[i].msg = m

Init ==
    /\ variant \in Variants
    /\ argv \in Args
    /\ occupied \in SUBSET PortsOfInterest(variant, ParsePort(argv).val)
    /\ pc = "parse"
    /\ requested_port = None
    /\ port = None
    /\ probe = None
    /\ tried = <<>>
    /\ probeSock = None
    /\ httpd = None
    /\ binds = <<>>
    /\ cwd = "start"
    /\ stdout = <<>>
    /\ browser = [state |-> "not_attempted", port |-> None]
    /\ backlog = <<>>
    /\ connected = 0
    /\ accepted = <<>>
    /\ active = {}
    /\ req = <<>>
    /\ resp = <<>>
    /\ interrupts = <<>>
    /\ exit_status = None
    /\ fault = ""

envVars == <<occupied, backlog, connected>>
connVars == <<accepted, active, req, resp>>
probeVars == <<probe, tried, probeSock>>

\* An exception that nothing catches: the traceback is printed, every
\* socket of the process is closed and the interpreter exits with status 1.
Unhandled(e) ==
    /\ pc' = "exited"
    /\ exit_status' = 1
    /\ fault' = e
    /\ probeSock' = None
    /\ httpd' = None

\* ------------------------------------------------------------------------
\* main(): startup
\* ------------------------------------------------------------------------
\* serve.py:16, test/serve.py:26
Parse ==
    /\ pc = "parse"
    /\ LET r == ParsePort(argv) IN
        IF r.ok
        THEN /\ requested_port' = r.val
             /\ IF variant = "free"
                THEN /\ pc' = "find_free_port"
                     /\ probe' = r.val
                     /\ port' = port
                ELSE /\ pc' = "chdir"
                     /\ port' = r.val
                     /\ probe' = probe
             /\ UNCHANGED <<exit_status, fault, probeSock, httpd>>
        ELSE /\ Unhandled("ValueError")
             /\ UNCHANGED <<requested_port, port, probe>>
    /\ UNCHANGED <<variant, argv, envVars, connVars, tried, binds, cwd,
                   stdout, browser, interrupts>>

\* test/serve.py:17-22, one iteration of the loop of find_free_port: the
\* constructor binds and listens, or closes its socket and raises
ProbeBind ==
    /\ pc = "find_free_port"
    /\ probe \in ProbeRange(requested_port)
    /\ tried' = Append(tried, probe)
    /\ IF ~ValidPort(probe)
       THEN /\ Unhandled("OverflowError")      \* not an OSError: propagates
            /\ UNCHANGED probe
       ELSE IF BindResults(probe) = {}
       THEN /\ probe' = probe + 1              \* except OSError: continue
            /\ UNCHANGED <<pc, probeSock, httpd, exit_status, fault>>
       ELSE /\ \E b \in BindResults(probe) : probeSock' = b
            /\ pc' = "probe_bound"
            /\ UNCHANGED <<probe, httpd, exit_status, fault>>
    /\ UNCHANGED <<variant, argv, envVars, connVars, requested_port, port,
                   binds, cwd, stdout, browser, interrupts>>

\* a probe that returns the port without closing its socket
ProbeReleaseLeaks ==
    /\ pc = "probe_bound"
    /\ port' = probe
    /\ pc' = "check_port"
    /\ UNCHANGED <<variant, argv, envVars, connVars, requested_port, probe,
                   tried, probeSock, httpd, binds, cwd, stdout, browser,
                   interrupts, exit_status, fault>>

\* test/serve.py:19-20, leaving the with block closes the probe's socket,
\* then the port is returned
ProbeRelease ==
    /\ pc = "probe_bound"
    /\ probeSock' = None
    /\ port' = probe
    /\ pc' = "check_port"
    /\ UNCHANGED <<variant, argv, envVars, connVars, requested_port, probe,
                   tried, httpd, binds, cwd, stdout, browser, interrupts,
                   exit_status, fault>>

\* test/serve.py:23, the range is exhausted
ProbeExhausted ==
    /\ pc = "find_free_port"
    /\ probe \notin ProbeRange(requested_port)
    /\ port' = None
    /\ pc' = "check_port"
    /\ UNCHANGED <<variant, argv, envVars, connVars, requested_port,
                   probeVars, httpd, binds, cwd, stdout, browser, interrupts,
                   exit_status, fault>>

\* test/serve.py:30-32
ExitNoPort ==
    /\ pc = "check_port"
    /\ port = None
    /\ stdout' = Append(stdout, Msg("Error: Could not find an available port",
                                    requested_port))
    /\ pc' = "exited"
    /\ exit_status' = 1                         \* sys.exit(1)
    /\ UNCHANGED <<variant, argv, envVars, connVars, requested_port, port,
                   probeVars, httpd, binds, cwd, browser, interrupts, fault>>

\* test/serve.py:34-35
PortResolved ==
    /\ pc = "check_port"
    /\ port # None
    /\ stdout' = IF port # requested_port
                 THEN Append(stdout, Msg("Port is in use, using instead", port))
                 ELSE stdout
    /\ pc' = "chdir"
    /\ UNCHANGED <<variant, argv, envVars, connVars, requested_port, port,
                   probeVars, httpd, binds, cwd, browser, interrupts,
                   exit_status, fault>>

\* serve.py:19-20, test/serve.py:38-40
Chdir ==
    /\ pc = "chdir"
    /\ cwd' = IF variant = "fixed" THEN "script_dir" ELSE "project_root"
    /\ pc' = "bind"
    /\ UNCHANGED <<variant, argv, envVars, connVars, requested_port, port,
                   probeVars, httpd, binds, stdout, browser, interrupts,
                   exit_status, fault>>

\* serve.py:32, test/serve.py:52: socketserver.TCPServer(("", port), ...)
\* binds and listens; its exceptions are not caught by main()
Bind ==
    /\ pc = "bind"
    /\ binds' = Append(binds, port)
    /\ IF ~ValidPort(port)
       THEN /\ Unhandled("OverflowError")
       ELSE IF BindResults(port) = {}
       THEN /\ Unhandled("OSError")
       ELSE /\ \E b \in BindResults(port) : httpd' = b
            /\ pc' = "print_serving"
            /\ UNCHANGED <<probeSock, exit_status, fault>>
    /\ UNCHANGED <<variant, argv, envVars, connVars, requested_port, port,
                   probe, tried, cwd, stdout, browser, interrupts>>

\* serve.py:33, test/serve.py:53
PrintServing ==
    /\ pc = "print_serving"
    /\ stdout' = Append(stdout, Msg("Serving at", port))
    /\ pc' = "print_open"
    /\ UNCHANGED <<variant, argv, envVars, connVars, requested_port, port,
                   probeVars, httpd, binds, cwd, browser, interrupts,
                   exit_status, fault>>

\* serve.py:34, test/serve.py:54
PrintOpen ==
    /\ pc = "print_open"
    /\ stdout' = Append(stdout, Msg("Open test page", port))
    /\ pc' = "launch"
    /\ UNCHANGED <<variant, argv, envVars, connVars, requested_port, port,
                   probeVars, httpd, binds, cwd, browser, interrupts,
                   exit_status, fault>>

\* serve.py:37-38, test/serve.py:57-58: the call of webbrowser.open starts
Launch ==
    /\ pc = "launch"
    /\ browser' = [state |-> "in_progress", port |-> port]
    /\ pc' = "browser"
    /\ UNCHANGED <<variant, argv, envVars, connVars, requested_port, port,
                   probeVars, httpd, binds, cwd, stdout, interrupts,
                   exit_status, fault>>

\* no handler around the launch
CaughtNothing(e) == FALSE

\* "except Exception:" in place of the bare except
CaughtOnlyException(e) == e # "KeyboardInterrupt"

\* serve.py:39-40, test/serve.py:59-60: "except:" without a class catches
\* every exception e raised in the try block, KeyboardInterrupt included
Caught(e) == TRUE

\* the exception e leaves webbrowser.open: "pass" when it is caught
LaunchException(e) ==
    IF Caught(e)
    THEN /\ pc' = "print_press"
         /\ UNCHANGED <<probeSock, httpd, exit_status, fault>>
    ELSE Unhandled(e)

\* webbrowser.open returns True or False; the value is ignored
LaunchReturns ==
    /\ pc = "browser"
    /\ \E o \in {"opened", "no_browser"} :
          browser' = [browser EXCEPT !.state = o]
    /\ pc' = "print_press"
    /\ UNCHANGED <<variant, argv, envVars, connVars, requested_port, port,
                   probeVars, httpd, binds, cwd, stdout, interrupts,
                   exit_status, fault>>

\* webbrowser.open raises (webbrowser.Error, OSError, ...)
LaunchRaises ==
    /\ pc = "browser"
    /\ browser' = [browser EXCEPT !.state = "raised"]
    /\ LaunchException("Exception")
    /\ UNCHANGED <<variant, argv, envVars, connVars, requested_port, port,
                   probe, tried, binds, cwd, stdout, interrupts>>

\* an interrupt arrives while webbrowser.open is in progress:
\* KeyboardInterrupt is raised inside the try block
InterruptLaunch ==
    /\ pc = "browser"
    /\ interrupts' = Append(interrupts, "browser")
    /\ browser' = [browser EXCEPT !.state = "interrupted"]
    /\ LaunchException("KeyboardInterrupt")
    /\ UNCHANGED <<variant, argv, envVars, connVars, requested_port, port,
                   probe, tried, binds, cwd, stdout>>

\* serve.py:42, test/serve.py:62
PrintPress ==
    /\ pc = "print_press"
    /\ stdout' = Append(stdout, Msg("Press Ctrl+C to stop the server", port))
    /\ pc' = "serve_forever"
    /\ UNCHANGED <<variant, argv, envVars, connVars, requested_port, port,
                   probeVars, httpd, binds, cwd, browser, interrupts,
                   exit_status, fault>>

\* ------------------------------------------------------------------------
\* The request handler: CORSRequestHandler over
\* http.server.SimpleHTTPRequestHandler
\* ------------------------------------------------------------------------
ACAO == "Access-Control-Allow-Origin: *"
ACAM == "Access-Control-Allow-Methods: GET, POST, OPTIONS"
ACAH == "Access-Control-Allow-Headers: *"

\* A request as the handler sees it: the shape of the request line (long:
\* more than 65536 bytes; words: number of words, 0 for an empty read), the
\* method, the protocol version (last word of a line of three or more words),
\* what the path names in the served directory, and the request headers.
Request(l, w, c, v, t, h) ==
    [long |-> l, words |-> w, command |-> c, version |-> v, target |-> t,
     headers |-> h]

Requests ==
    {Request(FALSE, 3, c, "HTTP/1.1", t, "ok") :
        c \in {"GET", "HEAD", "POST", "OPTIONS"}, t \in {"file", "missing"}}
    \cup {Request(FALSE, 3, "GET", "HTTP/1.0", t, "ok") :
        t \in {"dir_no_slash", "dir", "not_modified"}}
    \cup {Request(FALSE, 3, "GET", v, "file", "ok") :
        v \in {"HTTP/0.9", "HTTP/2.0", "FOO/1.1"}}
    \cup {Request(FALSE, 2, c, "", t, "ok") :
        c \in {"GET", "POST"}, t \in {"file", "missing"}}
    \cup {Request(FALSE, 1, "GET", "", "file", "ok"),
          Request(FALSE, 4, "GET", "HTTP/1.1", "file", "ok"),
          Request(FALSE, 0, "", "", "file", "ok"),
          Request(TRUE, 3, "GET", "HTTP/1.1", "file", "ok"),
          Request(FALSE, 3, "GET", "HTTP/1.1", "file", "line_too_long")}

\* State of one handler: what it has put into the headers buffer, whether
\* the header section and a body have been written to the connection.
NewHandler ==
    [request_version |-> "HTTP/0.9", command |-> "", status |-> 0,
     headers |-> <<>>, sent |-> FALSE, body |-> FALSE, failed |-> FALSE]

\* BaseHTTPRequestHandler.send_header: nothing is buffered for HTTP/0.9
send_header(h, keyword) ==
    IF h.request_version # "HTTP/0.9"
    THEN [h EXCEPT !.headers = Append(@, keyword)]
    ELSE h

\* BaseHTTPRequestHandler.end_headers, reached by super().end_headers():
\* the buffered header section is written, except for HTTP/0.9
base_end_headers(h) ==
    IF h.request_version # "HTTP/0.9" THEN [h EXCEPT !.sent = TRUE] ELSE h

\* an override that forgets the third header
end_headers_without_allow_headers(h) ==
    base_end_headers(send_header(send_header(h, ACAO), ACAM))

\* serve.py:26-30, test/serve.py:46-50: CORSRequestHandler.end_headers
end_headers(h) ==
    base_end_headers(send_header(send_header(send_header(h, ACAO), ACAM), ACAH))

\* BaseHTTPRequestHandler.send_response: status line, Server, Date
send_response(h, code) ==
    send_header(send_header([h EXCEPT !.status = code], "Server"), "Date")

\* BaseHTTPRequestHandler.send_error: no body for 1xx, 204, 205, 304 and
\* for HEAD
send_error(h, code) ==
    LET hasBody == code >= 200 /\ code \notin {204, 205, 304}
        h1 == send_header(send_response(h, code), "Connection")
        h2 == IF hasBody
              THEN send_header(send_header(h1, "Content-Type"),
                               "Content-Length")
              ELSE h1
        h3 == end_headers(h2)
    IN  [h3 EXCEPT !.body = hasBody /\ h.command # "HEAD"]

WellFormedVersion(v) == v \in {"HTTP/0.9", "HTTP/1.0", "HTTP/1.1", "HTTP/2.0"}
AtLeastHTTP2(v) == v = "HTTP/2.0"

\* BaseHTTPRequestHandler.parse_request: [ok, h]; when ok is FALSE the
\* error response, if any, has been sent
parse_request(r) ==
    LET h0 == NewHandler
        hv == IF r.words >= 3 THEN [h0 EXCEPT !.request_version = r.version]
              ELSE h0
        hc == [hv EXCEPT !.command = r.command]
    IN  IF r.words = 0 THEN [ok |-> FALSE, h |-> h0]
        ELSE IF r.words >= 3 /\ ~WellFormedVersion(r.version)
        THEN [ok |-> FALSE, h |-> send_error(h0, 400)]
        ELSE IF r.words >= 3 /\ AtLeastHTTP2(r.version)
        THEN [ok |-> FALSE, h |-> send_error(h0, 505)]
        ELSE IF r.words < 2 \/ r.words > 3
        THEN [ok |-> FALSE, h |-> send_error(hv, 400)]
        ELSE IF r.words = 2 /\ r.command # "GET"
        THEN [ok |-> FALSE, h |-> send_error(hv, 400)]
        ELSE IF r.headers = "line_too_long"
        THEN [ok |-> FALSE, h |-> send_error(hc, 431)]
        ELSE [ok |-> TRUE, h |-> hc]

\* SimpleHTTPRequestHandler.send_head
send_head(h, target) ==
    CASE target = "dir_no_slash" ->
            end_headers(send_header(send_header(send_response(h, 301),
                                    "Location"), "Content-Length"))
      [] target = "missing" -> send_error(h, 404)
      [] target = "not_modified" -> end_headers(send_response(h, 304))
      [] target = "dir" ->     \* list_directory
            [end_headers(send_header(send_header(send_response(h, 200),
                                     "Content-type"), "Content-Length"))
             EXCEPT !.body = h.command # "HEAD"]
      [] OTHER ->              \* a file
            [end_headers(send_header(send_header(send_header(
                 send_response(h, 200),
                 "Content-type"), "Content-Length"), "Last-Modified"))
             EXCEPT !.body = h.command # "HEAD"]

\* BaseHTTPRequestHandler.handle_one_request with the do_GET and do_HEAD of
\* SimpleHTTPRequestHandler: the response written for request r
handle_one_request(r) ==
    IF r.long
    THEN send_error([NewHandler EXCEPT !.request_version = ""], 414)
    ELSE LET p == parse_request(r) IN
         IF ~p.ok THEN p.h
         ELSE IF p.h.command \notin {"GET", "HEAD"}
         THEN send_error(p.h, 501)
         ELSE send_head(p.h, r.target)

\* something was written to the connection
Produced(h) == h.sent \/ h.body

\* ------------------------------------------------------------------------
\* Environment: other processes and clients
\* ------------------------------------------------------------------------
\* Another process binds the port main() is about to bind, after the probe
\* (if any) has let go of it
OccupyByOther ==
    /\ pc \in {"check_port", "chdir", "bind"}
    /\ port # None
    /\ ValidPort(port)
    /\ port # 0
    /\ IsFree(port)
    /\ occupied' = occupied \cup {port}
    /\ UNCHANGED <<variant, argv, pc, requested_port, port, probeVars, httpd,
                   binds, cwd, stdout, browser, backlog, connected, connVars,
                   interrupts, exit_status, fault>>

\* A client connects: the kernel queues the connection as soon as the
\* serving socket listens, whatever main() is doing
ClientConnect ==
    /\ httpd # None
    /\ connected < MaxConnections
    /\ connected' = connected + 1
    /\ backlog' = Append(backlog, connected + 1)
    /\ UNCHANGED <<variant, argv, occupied, pc, requested_port, port,
                   probeVars, httpd, binds, cwd, stdout, browser, connVars,
                   interrupts, exit_status, fault>>

\* ------------------------------------------------------------------------
\* main(): httpd.serve_forever(), serve.py:45, test/serve.py:65
\* ------------------------------------------------------------------------
ServeLoop == {"serve_forever", "handle", "shutdown_request"}

\* a server that accepts while a request is being handled
CanAcceptAnytime == TRUE

\* socketserver.TCPServer handles a request inside the loop that accepts:
\* get_request is called only from the loop, between two requests
CanAccept == pc = "serve_forever"

\* the connection the loop is working on
Current == accepted[Len(accepted)]

\* serve_forever -> _handle_request_noblock: get_request accepts the next
\* connection of the listen queue
Accept ==
    /\ pc \in ServeLoop
    /\ CanAccept
    /\ backlog # <<>>
    /\ accepted' = Append(accepted, Head(backlog))
    /\ active' = active \cup {Head(backlog)}
    /\ backlog' = Tail(backlog)
    /\ pc' = "handle"
    /\ UNCHANGED <<variant, argv, occupied, connected, requested_port, port,
                   probeVars, httpd, binds, cwd, stdout, browser, req, resp,
                   interrupts, exit_status, fault>>

\* process_request -> finish_request -> CORSRequestHandler(...).handle():
\* the request is read and answered
Handle ==
    /\ pc = "handle"
    /\ \E r \in Requests :
          /\ req' = (Current :> r) @@ req
          /\ resp' = (Current :> handle_one_request(r)) @@ resp
    /\ pc' = "shutdown_request"
    /\ UNCHANGED <<variant, argv, envVars, requested_port, port, probeVars,
                   httpd, binds, cwd, stdout, browser, accepted, active,
                   interrupts, exit_status, fault>>

\* a loop that lets the handler's exception through
AfterHandlerExceptionPropagates == "exited"

\* _handle_request_noblock, "except Exception": where the loop goes on when
\* the handler raises an exception (the client reset the connection, ...):
\* handle_error reports it and the loop carries on
AfterHandlerException == "shutdown_request"

\* the handler raises before it has answered
HandleFails ==
    /\ pc = "handle"
    /\ resp' = (Current :> [NewHandler EXCEPT !.failed = TRUE]) @@ resp
    /\ IF AfterHandlerException = "shutdown_request"
       THEN /\ pc' = "shutdown_request"
            /\ UNCHANGED <<probeSock, httpd, exit_status, fault>>
       ELSE Unhandled("Exception")
    /\ UNCHANGED <<variant, argv, envVars, requested_port, port, probe, tried,
                   binds, cwd, stdout, browser, accepted, active, req,
                   interrupts>>

\* shutdown_request closes the connection; back to the select of the loop
ShutdownRequest ==
    /\ pc = "shutdown_request"
    /\ active' = active \ {Current}
    /\ req' = [c \in DOMAIN req \ {Current} |-> req[c]]
    /\ resp' = [c \in DOMAIN resp \ {Current} |-> resp[c]]
    /\ pc' = "serve_forever"
    /\ UNCHANGED <<variant, argv, envVars, requested_port, port, probeVars,
                   httpd, binds, cwd, stdout, browser, accepted, interrupts,
                   exit_status, fault>>

\* no handler around serve_forever
CaughtByMainNothing(e) == FALSE

\* serve.py:46, test/serve.py:66: "except KeyboardInterrupt" around
\* serve_forever catches exception e
CaughtByMain(e) == e = "KeyboardInterrupt"

\* An interrupt arrives while serve_forever runs.  KeyboardInterrupt passes
\* the "except Exception" of the loop (the connection being handled is shut
\* down on the way) and reaches main()
InterruptServe ==
    /\ pc \in ServeLoop
    /\ interrupts' = Append(interrupts, "serve_forever")
    /\ active' = {}
    /\ req' = <<>>
    /\ resp' = <<>>
    /\ IF CaughtByMain("KeyboardInterrupt")
       THEN /\ pc' = "stopped"
            /\ UNCHANGED <<probeSock, httpd, exit_status, fault>>
       ELSE Unhandled("KeyboardInterrupt")
    /\ UNCHANGED <<variant, argv, envVars, requested_port, port, probe, tried,
                   binds, cwd, stdout, browser, accepted>>

\* serve.py:47, test/serve.py:67
PrintStopped ==
    /\ pc = "stopped"
    /\ stdout' = Append(stdout, Msg("Server stopped.", port))
    /\ pc' = "close"
    /\ UNCHANGED <<variant, argv, envVars, connVars, requested_port, port,
                   probeVars, httpd, binds, cwd, browser, interrupts,
                   exit_status, fault>>

\* the with block of serve.py:32 / test/serve.py:52 ends: server_close, then
\* main() returns and the interpreter exits with status 0
ServerClose ==
    /\ pc = "close"
    /\ httpd' = None
    /\ backlog' = <<>>
    /\ pc' = "exited"
    /\ exit_status' = 0
    /\ UNCHANGED <<variant, argv, occupied, connected, connVars,
                   requested_port, port, probeVars, binds, cwd, stdout,
                   browser, interrupts, fault>>

\* steps of the process itself
MainStep ==
    \/ Parse \/ ProbeBind \/ ProbeRelease \/ ProbeExhausted \/ ExitNoPort
    \/ PortResolved \/ Chdir \/ Bind \/ PrintServing \/ PrintOpen \/ Launch
    \/ PrintPress \/ Accept \/ Handle \/ ShutdownRequest \/ PrintStopped
    \/ ServerClose

Next ==
    \/ Parse
    \/ ProbeBind
    \/ ProbeRelease
    \/ ProbeExhausted
    \/ ExitNoPort
    \/ PortResolved
    \/ Chdir
    \/ Bind
    \/ PrintServing
    \/ PrintOpen
    \/ Launch
    \/ LaunchReturns
    \/ LaunchRaises
    \/ InterruptLaunch
    \/ PrintPress
    \/ ClientConnect
    \/ Accept
    \/ Handle
    \/ HandleFails
    \/ ShutdownRequest
    \/ InterruptServe
    \/ PrintStopped
    \/ ServerClose

\* The ports held by other processes stay as they were at the start
Spec == Init /\ [][Next]_vars

\* The process is scheduled: a step of main() that is possible is
\* eventually taken.  Nothing is assumed of clients, interrupts or the
\* browser.
FairSpec == Init /\ [][Next]_vars /\ WF_vars(MainStep)

\* Another process may take the port between the probe and the bind
NextRace ==
    \/ Next
    \/ OccupyByOther

RaceSpec == Init /\ [][NextRace]_vars

TypeOK ==
    /\ variant \in Variants
    /\ pc \in {"parse", "find_free_port", "probe_bound", "check_port",
               "chdir", "bind", "print_serving", "print_open", "launch",
               "browser", "print_press", "exited", "stopped", "close"}
              \cup ServeLoop
    /\ exit_status \in {None, 0, 1}
    /\ Cardinality(active) <= MaxConnections

\* ------------------------------------------------------------------------
\* Properties
\* ------------------------------------------------------------------------
Range(f) == {f[i] : i \in DOMAIN f}

\* the ports P .. P+9 of the requested port P
Window == requested_port .. (requested_port + 9)

\* ports of the window that no other process holds
FreeInWindow == {q \in Window : q \notin occupied}

\* C1: whenever the serving socket is bound, it is bound to the requested
\* port P (fixed-port variant), or to the smallest port of P .. P+9 that no
\* other process holds (free-port variant); it is bound to no other port.
C1_BoundToRequestedOrFirstFree ==
    httpd # None =>
        IF variant = "fixed"
        THEN httpd = requested_port
        ELSE /\ httpd \in FreeInWindow
             /\ \A q \in FreeInWindow : httpd <= q

\* every port of P .. P+9 is held by another process (free-port variant)
AllOccupied ==
    /\ variant = "free"
    /\ requested_port # None
    /\ FreeInWindow = {}

\* C2: in the free-port variant, when every port of P .. P+9 is occupied,
\* the probe tries P, P+1, ..., P+9 in this order and nothing else, no
\* serving socket is bound, no browser is launched, the serve loop is not
\* entered, and the process ends having printed only the error message,
\* with exit status 1 and without a fault; until then it can always proceed.
C2_ExhaustedProbeExits ==
    AllOccupied =>
        /\ Len(tried) <= 10
        /\ \A i \in DOMAIN tried : tried[i] = requested_port + i - 1
        /\ httpd = None
        /\ binds = <<>>
        /\ browser.state = "not_attempted"
        /\ pc \notin ServeLoop
        /\ accepted = <<>>
        /\ pc = "exited" =>
              /\ Len(tried) = 10
              /\ stdout = <<Msg("Error: Could not find an available port",
                                requested_port)>>
              /\ exit_status = 1
              /\ fault = ""
        /\ pc # "exited" => ENABLED MainStep

C2_Witness ==
    /\ AllOccupied
    /\ pc = "exited"
    /\ Len(tried) = 10
    /\ exit_status = 1

CORSHeaders == {ACAO, ACAM, ACAH}

\* C3 as claimed: every response the server produces carries the three
\* CORS headers.
C3_EveryResponseHasCORS ==
    \A c \in DOMAIN resp :
        Produced(resp[c]) =>
            resp[c].sent /\ CORSHeaders \subseteq Range(resp[c].headers)

\* C3 as amended: every response the server produces while the handler's
\* request version is not HTTP/0.9 has a header section that carries the
\* three CORS headers, whatever the path, the method and the status.
C3_ResponsesWithHeadersHaveCORS ==
    \A c \in DOMAIN resp :
        (Produced(resp[c]) /\ resp[c].request_version # "HTTP/0.9") =>
            resp[c].sent /\ CORSHeaders \subseteq Range(resp[c].headers)

\* a not-found response and a response to a method the file server does
\* not implement, both with the headers
C3_Witness ==
    \E c \in DOMAIN resp :
        /\ resp[c].status \in {404, 501}
        /\ req[c].command \in {"GET", "OPTIONS"}
        /\ resp[c].sent
        /\ CORSHeaders \subseteq Range(resp[c].headers)

Last(q) == q[Len(q)]

\* the latest interrupt arrived while serve_forever was running
InterruptedInServeLoop ==
    interrupts # <<>> /\ Last(interrupts) = "serve_forever"

\* the process has ended cleanly: notice printed, socket released, status 0
CleanlyStopped ==
    /\ pc = "exited"
    /\ exit_status = 0
    /\ fault = ""
    /\ httpd = None
    /\ stdout # <<>>
    /\ Last(stdout).msg = "Server stopped."

\* C4: once an interrupt has been delivered in the serve loop, the process
\* eventually has printed the shutdown notice, released the listening
\* socket and exited with status 0 and no fault.
C4_InterruptLeadsToCleanStop == InterruptedInServeLoop ~> CleanlyStopped

C4_Witness ==
    /\ CleanlyStopped
    /\ InterruptedInServeLoop
    /\ Len(accepted) >= 1

\* the call of webbrowser.open has just returned or raised
LaunchEnded ==
    /\ pc = "print_press"
    /\ browser.state \in {"opened", "no_browser", "raised"}

StartupMessages ==
    {"Port is in use, using instead", "Serving at", "Open test page",
     "Press Ctrl+C to stop the server"}

\* C5: once the browser launch has returned or raised, the process
\* reaches the serve loop; and as long as no interrupt has been delivered,
\* a launch that raised leaves the process running on its bound socket,
\* with no fault and nothing printed but the startup messages.
C5_LaunchFailureDoesNotPreventServing ==
    /\ LaunchEnded ~> (pc \in ServeLoop)
    /\ [](browser.state = "raised" /\ interrupts = <<>> =>
            /\ exit_status = None
            /\ fault = ""
            /\ httpd # None
            /\ \A i \in DOMAIN stdout : stdout[i].msg \in StartupMessages)

C5_Witness ==
    /\ browser.state = "raised"
    /\ pc = "shutdown_request"
    /\ accepted # <<>>

\* C6: at most one accepted connection is being handled at any time, and a
\* connection is accepted only when none is being handled.
C6_OneRequestAtATime ==
    [][/\ Cardinality(active') <= 1
       /\ accepted' # accepted => active = {}]_vars

C6_Witness ==
    /\ Len(accepted) = 2
    /\ active = {2}
    /\ pc = "shutdown_request"

\* the three states of the lifecycle: a process that has ended is stopped
Lifecycle ==
    IF pc \in ServeLoop THEN "serving"
    ELSE IF pc \in {"stopped", "close", "exited"} THEN "stopped"
    ELSE "starting"

InterruptDelivered == Len(interrupts') = Len(interrupts) + 1

\* C7 as claimed: starting is followed by serving, serving by stopped, and
\* the stopped state is entered only by a step that delivers an interrupt.
C7_StoppedOnlyByInterrupt ==
    [][/\ Lifecycle = "starting" => Lifecycle' \in {"starting", "serving"}
       /\ Lifecycle = "serving" => Lifecycle' \in {"serving", "stopped"}
       /\ Lifecycle = "stopped" => Lifecycle' = "stopped"
       /\ (Lifecycle' = "stopped" /\ Lifecycle # "stopped")
             => InterruptDelivered]_vars

\* the lifecycle with the end of a process that never served set apart
Phase ==
    IF pc = "exited" /\ exit_status # 0 THEN "failed" ELSE Lifecycle

\* C7 as amended: the process goes from starting to serving or fails while
\* starting (exit status 1, never having served); serving is left only for
\* the stopped state and only by a step that delivers an interrupt to
\* serve_forever (a request that fails leaves it serving); stopped and
\* failed are final.
C7_ServingLeftOnlyByInterrupt ==
    [][/\ Phase = "starting" => Phase' \in {"starting", "serving", "failed"}
       /\ Phase = "serving" => Phase' \in {"serving", "stopped"}
       /\ Phase = "stopped" => Phase' = "stopped"
       /\ Phase = "failed" => Phase' = "failed"
       /\ Phase' = "failed" => (accepted' = <<>> /\ exit_status' = 1)
       /\ (Phase' = "stopped" /\ Phase # "stopped") =>
             /\ Phase = "serving"
             /\ interrupts' = Append(interrupts, "serve_forever")]_vars

\* a request has failed and the process is still serving
C7_Witness ==
    /\ pc = "shutdown_request"
    /\ resp[Current].failed

\* the step prints message m
Prints(m) == Len(stdout') = Len(stdout) + 1 /\ Last(stdout').msg = m

\* C8: the port is parsed before it is probed, probed before the serving
\* socket is bound, the socket is bound before its address is printed, the
\* address before the test-page link, the link before the browser launch is
\* attempted, and the launch has ended before the first connection is
\* accepted; when the launch is attempted the serving socket is bound to
\* the printed port, which is the port the browser is opened on.
C8_StartupOrder ==
    [][/\ tried' # tried => (requested_port # None /\ binds = <<>>)
       /\ binds' # binds =>
             /\ requested_port # None
             /\ variant = "free" => (tried # <<>> /\ port = Last(tried))
             /\ stdout = <<>> \/ Last(stdout).msg = "Port is in use, using instead"
       /\ Prints("Serving at") => (httpd # None /\ ~Printed("Open test page"))
       /\ Prints("Open test page") =>
             (Printed("Serving at") /\ browser.state = "not_attempted")
       /\ (browser.state = "not_attempted" /\ browser'.state # "not_attempted") =>
             /\ Printed("Serving at")
             /\ Printed("Open test page")
             /\ accepted = <<>>
             /\ httpd # None
             /\ \A i \in DOMAIN stdout :
                   stdout[i].msg \in {"Serving at", "Open test page"}
                      => stdout[i].port = httpd
             /\ browser'.port = httpd
       /\ accepted' # accepted =>
             browser.state \notin {"not_attempted", "in_progress"}]_vars

\* C9: an interrupt delivered during the browser launch is swallowed: as
\* long as it is the only interrupt the process keeps running on its bound
\* socket, prints no shutdown notice and has no fault; it goes on to the
\* serve loop; and it is stopped only after a second interrupt.
C9_InterruptDuringLaunchSwallowed ==
    /\ [](browser.state = "interrupted" =>
            /\ interrupts # <<>>
            /\ interrupts[1] = "browser"
            /\ Len(interrupts) = 1 =>
                  /\ pc \in {"print_press"} \cup ServeLoop
                  /\ exit_status = None
                  /\ fault = ""
                  /\ httpd # None
                  /\ ~Printed("Server stopped.")
            /\ pc \in {"stopped", "close", "exited"} =>
                  interrupts = <<"browser", "serve_forever">>)
    /\ (browser.state = "interrupted" /\ pc = "print_press")
          ~> (pc = "serve_forever")

C9_Witness ==
    /\ browser.state = "interrupted"
    /\ CleanlyStopped
    /\ Len(interrupts) = 2

\* another process holds the port the probe returned
Raced ==
    /\ variant = "free"
    /\ port # None
    /\ port \in occupied

\* C10: in the free-port variant the probe's socket is closed whenever the
\* next port is probed and whenever the serving bind is made; the serving
\* bind is made at most once, on the port the probe returned, and after it
\* nothing is probed; and when another process has taken that port before
\* the serving bind, no serving socket is ever bound, the serve loop is
\* never entered, and the process ends with an unhandled OSError after
\* exactly one serving bind.
C10_ProbeThenSingleBind ==
    [][/\ tried' # tried => probeSock = None
       /\ binds' # binds =>
             /\ probeSock = None
             /\ binds = <<>>
             /\ variant = "free" => binds' = <<Last(tried)>>
       /\ binds # <<>> => tried' = tried
       /\ Raced' =>
             /\ httpd' = None
             /\ pc' \notin ServeLoop
             /\ accepted' = <<>>
             /\ pc' = "exited" =>
                   /\ fault' = "OSError"
                   /\ exit_status' = 1
                   /\ binds' = <<port>>]_vars

C10_Witness ==
    /\ Raced
    /\ pc = "exited"
    /\ fault = "OSError"
    /\ Len(tried) >= 2

====
